---------------------------- MODULE Spec2Model ----------------------------
(***************************************************************************)
(* SpendGuard client: the command-line tool (cynsta_spendguard_cli/main.py)*)
(* and the library (spendguard_sdk/client.py), as one state machine per    *)
(* invocation: the inputs (command line, environment, the server's reply)  *)
(* are fixed by Init, and one action per command handler or library method *)
(* carries the invocation from "start" to "done".                          *)
(*                                                                         *)
(* Text is a sequence of atoms.  An atom is a one-character string where   *)
(* the code looks at characters (agent ids, integers, modes, base URLs)    *)
(* and a literal chunk of the source elsewhere ("/v1/agents/").  A body is *)
(* a sequence of JSON lexemes (bytes grouped by lexeme).                   *)
(***************************************************************************)
EXTENDS Integers, Sequences, FiniteSets, TLC

VARIABLES
    pc,         \* "start" | "done": position of the invocation
    surface,    \* "cli" | "lib": which facade is invoked
    argv,       \* the command line (cli) or the method call (lib)
    env,        \* CAP_MODE, CAP_API_KEY, CAP_BASE_URL
    reply,      \* what urlopen will produce if it is called
    requests,   \* the Request objects handed to urlopen, in order
    outcome,    \* how the operation ended: returned value or raised error
    stdout,     \* lines printed to standard output
    stderr,     \* lines printed to standard error
    exit_code   \* the process exit code (cli), Running until it is set

vars == <<pc, surface, argv, env, reply, requests, outcome, stdout, stderr, exit_code>>

\* Python's None for an optional text: a one-atom text no input contains.
None == <<"<None>">>

\* exit_code while the process is still running
Running == -1

(***************************************************************************)
(* Bounds                                                                  *)
(***************************************************************************)
MaxIdLen == 3       \* longest agent / run identifier enumerated
MaxIntLen == 3      \* longest --limit / --topup argument enumerated
MaxBodyLen == 4     \* longest reply body (in lexemes) enumerated
MaxRows == 3        \* longest "agents" array enumerated

(***************************************************************************)
(* Text helpers                                                            *)
(***************************************************************************)
RECURSIVE SeqsUpTo(_, _)
SeqsUpTo(S, n) ==
    IF n = 0 THEN {<< >>}
    ELSE LET shorter == SeqsUpTo(S, n - 1)
         IN  shorter \cup {Append(s, a) : s \in {t \in shorter : Len(t) = n - 1}, a \in S}

Range(s) == {s[i] : i \in 1..Len(s)}

Prefixes(s) == {SubSeq(s, 1, n) : n \in 0..Len(s)}

\* Python truthiness of an optional string: None and "" are falsy.
Truthy(s) == s # None /\ s # << >>

\* a or b or c on optional strings
Or2(a, b) == IF Truthy(a) THEN a ELSE b

RECURSIVE RStrip(_, _)
RStrip(s, ch) ==
    IF s # << >> /\ s[Len(s)] = ch THEN RStrip(SubSeq(s, 1, Len(s) - 1), ch) ELSE s

RECURSIVE LStrip(_, _)
LStrip(s, ch) ==
    IF s # << >> /\ s[1] = ch THEN LStrip(Tail(s), ch) ELSE s

\* str.strip() over the whitespace atom of the model
Strip(s) == LStrip(RStrip(s, " "), " ")

UpperToLower ==
    ("H" :> "h") @@ ("O" :> "o") @@ ("S" :> "s") @@ ("T" :> "t") @@ ("E" :> "e") @@ ("D" :> "d")

\* str.lower()
Lower(s) == [i \in 1..Len(s) |-> IF s[i] \in DOMAIN UpperToLower THEN UpperToLower[s[i]] ELSE s[i]]

(***************************************************************************)
(* Integers as text: str(int) and int(str)                                 *)
(***************************************************************************)
Digits == <<"0", "1", "2", "3", "4", "5", "6", "7", "8", "9">>

DigitSet == Range(Digits)

DigitValue(d) == (CHOOSE i \in 1..10 : Digits[i] = d) - 1

RECURSIVE NatText(_)
NatText(n) == IF n < 10 THEN <<Digits[n + 1]>> ELSE Append(NatText(n \div 10), Digits[(n % 10) + 1])

\* str(n) for a Python int
IntText(n) == IF n < 0 THEN <<"-">> \o NatText(0 - n) ELSE NatText(n)

\* The digit groups of an int literal: digits, single underscores only between digits.
IsDigitRun(s) ==
    /\ s # << >>
    /\ \A i \in 1..Len(s) : s[i] \in DigitSet \/ s[i] = "_"
    /\ s[1] # "_" /\ s[Len(s)] # "_"
    /\ \A i \in 1..(Len(s) - 1) : ~(s[i] = "_" /\ s[i + 1] = "_")

RECURSIVE DigitRunValue(_, _)
DigitRunValue(s, acc) ==
    IF s = << >> THEN acc
    ELSE IF s[1] = "_" THEN DigitRunValue(Tail(s), acc)
    ELSE DigitRunValue(Tail(s), 10 * acc + DigitValue(s[1]))

\* int(value) for a str: [ok |-> s is an int literal, n |-> its value]; ok = FALSE is ValueError.
PyInt(value) ==
    LET t == Strip(value)
        signed == t # << >> /\ t[1] \in {"+", "-"}
        body == IF signed THEN Tail(t) ELSE t
    IN  IF IsDigitRun(body)
        THEN [ok |-> TRUE,
              n |-> IF signed /\ t[1] = "-" THEN 0 - DigitRunValue(body, 0) ELSE DigitRunValue(body, 0)]
        ELSE [ok |-> FALSE, n |-> 0]

(***************************************************************************)
(* urllib.parse.quote(s, safe='') and its inverse                          *)
(***************************************************************************)
\* Characters quote() never encodes (letters, digits, "_.-~"), as far as the model's alphabet goes.
AlwaysSafe == {"a", "b", "0", "2", "5", "_", ".", "-", "~"}

\* The two hex digits of the character's UTF-8 byte.
HexOf == ("/" :> <<"2", "F">>) @@ (" " :> <<"2", "0">>) @@ ("%" :> <<"2", "5">>) @@ ("?" :> <<"3", "F">>)

RECURSIVE Quote_DefaultSafe(_, _)
\* quote(s) with its default safe="/" in place of safe="".
Quote_DefaultSafe(s, safe) ==
    IF s = << >> THEN << >>
    ELSE (IF s[1] \in AlwaysSafe \cup {"/"} THEN <<s[1]>> ELSE <<"%">> \o HexOf[s[1]])
         \o Quote_DefaultSafe(Tail(s), safe)

\* quote(s, safe=safe): every character outside AlwaysSafe and safe becomes %XX.
RECURSIVE Quote(_, _)
Quote(s, safe) ==
    IF s = << >> THEN << >>
    ELSE (IF s[1] \in AlwaysSafe \cup safe THEN <<s[1]>> ELSE <<"%">> \o HexOf[s[1]]) \o Quote(Tail(s), safe)

\* urllib.parse.unquote: one pass of %XX decoding (what a server applies to a path segment).
RECURSIVE Unquote(_)
Unquote(s) ==
    IF s = << >> THEN << >>
    ELSE IF s[1] = "%" /\ Len(s) >= 3 /\ \E c \in DOMAIN HexOf : HexOf[c] = <<s[2], s[3]>>
         THEN <<CHOOSE c \in DOMAIN HexOf : HexOf[c] = <<s[2], s[3]>> >> \o Unquote(SubSeq(s, 4, Len(s)))
         ELSE <<s[1]>> \o Unquote(Tail(s))

(***************************************************************************)
(* JSON: values, json.loads and json.dumps over lexeme sequences           *)
(*                                                                         *)
(* A value is [t, s, kids]: t the Python type, s the text of a scalar, and *)
(* kids the elements of a list ([k |-> "", v]) or the items of a dict      *)
(* ([k, v], keys unique, in insertion order).                              *)
(***************************************************************************)
JNull == [t |-> "null", s |-> << >>, kids |-> << >>]

JBool(b) == [t |-> "bool", s |-> <<IF b THEN "true" ELSE "false">>, kids |-> << >>]

JNum(digits) == [t |-> "int", s |-> digits, kids |-> << >>]

JFloat(digits) == [t |-> "float", s |-> digits, kids |-> << >>]

\* A str whose content is the text c.
JStr(c) == [t |-> "str", s |-> c, kids |-> << >>]

JArr(elems) == [t |-> "list", s |-> << >>, kids |-> elems]

JObj(items) == [t |-> "dict", s |-> << >>, kids |-> items]

Elem(v) == [k |-> "", v |-> v]

Item(k, v) == [k |-> k, v |-> v]

\* The string lexemes of the model and the content of each.
StrLex ==
    ("\"agent_id\"" :> "agent_id") @@ ("\"agents\"" :> "agents") @@
    ("\"created_at\"" :> "created_at") @@ ("\"deleted\"" :> "deleted") @@
    ("\"detail\"" :> "detail") @@ ("\"hard_limit_cents\"" :> "hard_limit_cents") @@
    ("\"locked_cents\"" :> "locked_cents") @@ ("\"locked_expires_at\"" :> "locked_expires_at") @@
    ("\"locked_run_id\"" :> "locked_run_id") @@ ("\"name\"" :> "name") @@
    ("\"remaining_cents\"" :> "remaining_cents") @@ ("\"topup_cents\"" :> "topup_cents") @@
    ("\"x\"" :> "x") @@ ("\"a1\"" :> "a1") @@ ("\"alpha\"" :> "alpha") @@
    ("\"model\"" :> "model") @@ ("\"\"" :> "") @@ ("\"true\"" :> "true")

\* The keys above in code-point order (sort_keys=True).
KeyOrder ==
    <<"", "a1", "agent_id", "agents", "alpha", "created_at", "deleted", "detail",
      "hard_limit_cents", "locked_cents", "locked_expires_at", "locked_run_id",
      "model", "name", "remaining_cents", "topup_cents", "true", "x">>

KeyRank(k) == CHOOSE i \in 1..Len(KeyOrder) : KeyOrder[i] = k

LexOf(content) == CHOOSE l \in DOMAIN StrLex : StrLex[l] = content

\* A one-atom (or empty) text as a str content and back.
AtomText(a) == IF a = "" THEN << >> ELSE <<a>>

TextAtom(c) == IF c = << >> THEN "" ELSE c[1]

WhiteSpace == {" ", "\n"}

RECURSIVE SkipWs(_, _)
SkipWs(toks, i) == IF i <= Len(toks) /\ toks[i] \in WhiteSpace THEN SkipWs(toks, i + 1) ELSE i

RECURSIVE DigitsEnd(_, _)
\* The first position at or after i that holds no digit.
DigitsEnd(toks, i) == IF i <= Len(toks) /\ toks[i] \in DigitSet THEN DigitsEnd(toks, i + 1) ELSE i

\* dict[k] = v: a repeated key keeps its place and takes the new value.
ObjSet(items, k, v) ==
    IF \E i \in 1..Len(items) : items[i].k = k
    THEN [i \in 1..Len(items) |-> IF items[i].k = k THEN Item(k, v) ELSE items[i]]
    ELSE Append(items, Item(k, v))

ParseFail == [ok |-> FALSE, v |-> JNull, next |-> 0]

ParseOk(v, next) == [ok |-> TRUE, v |-> v, next |-> next]

\* A JSON number at position i (i holds "-" or a digit).
RECURSIVE FloatRepr(_)
\* repr of the float a decimal numeral stands for: trailing zeros of the fraction are dropped.
FloatRepr(t) ==
    IF Len(t) >= 2 /\ t[Len(t)] = "0" /\ t[Len(t) - 1] # "." THEN FloatRepr(SubSeq(t, 1, Len(t) - 1)) ELSE t

\* The numeral of the int a JSON integer stands for: -0 is 0.
IntRepr(t) == IF t = <<"-", "0">> THEN <<"0">> ELSE t

ParseNumber(toks, i) ==
    LET d == IF toks[i] = "-" THEN i + 1 ELSE i
        intEnd == IF d <= Len(toks) /\ toks[d] = "0" THEN d + 1 ELSE DigitsEnd(toks, d)
        fracEnd == IF intEnd <= Len(toks) /\ toks[intEnd] = "." THEN DigitsEnd(toks, intEnd + 1) ELSE intEnd
    IN  IF intEnd = d THEN ParseFail
        ELSE IF fracEnd > intEnd + 1 THEN ParseOk(JFloat(FloatRepr(SubSeq(toks, i, fracEnd - 1))), fracEnd)
        ELSE ParseOk(JNum(IntRepr(SubSeq(toks, i, intEnd - 1))), intEnd)

RECURSIVE ParseValue(_, _), ParseElements(_, _, _), ParseMembers(_, _, _)
ParseValue(toks, i0) ==
    LET i == SkipWs(toks, i0)
    IN  IF i > Len(toks) THEN ParseFail
        ELSE LET tk == toks[i]
             IN  CASE tk \in DOMAIN StrLex -> ParseOk(JStr(AtomText(StrLex[tk])), i + 1)
                   [] tk \in DigitSet \cup {"-"} -> ParseNumber(toks, i)
                   [] tk = "true" -> ParseOk(JBool(TRUE), i + 1)
                   [] tk = "false" -> ParseOk(JBool(FALSE), i + 1)
                   [] tk = "null" -> ParseOk(JNull, i + 1)
                   [] tk = "[" ->
                        LET j == SkipWs(toks, i + 1)
                        IN  IF j <= Len(toks) /\ toks[j] = "]" THEN ParseOk(JArr(<< >>), j + 1)
                            ELSE ParseElements(toks, j, << >>)
                   [] tk = "{" ->
                        LET j == SkipWs(toks, i + 1)
                        IN  IF j <= Len(toks) /\ toks[j] = "}" THEN ParseOk(JObj(<< >>), j + 1)
                            ELSE ParseMembers(toks, j, << >>)
                   [] OTHER -> ParseFail

ParseElements(toks, i, acc) ==
    LET r == ParseValue(toks, i)
    IN  IF ~r.ok THEN ParseFail
        ELSE LET j == SkipWs(toks, r.next)
                 acc2 == Append(acc, Elem(r.v))
             IN  IF j > Len(toks) THEN ParseFail
                 ELSE IF toks[j] = "]" THEN ParseOk(JArr(acc2), j + 1)
                 ELSE IF toks[j] = "," THEN ParseElements(toks, j + 1, acc2)
                 ELSE ParseFail

ParseMembers(toks, i0, acc) ==
    LET i == SkipWs(toks, i0)
    IN  IF i > Len(toks) \/ toks[i] \notin DOMAIN StrLex THEN ParseFail
        ELSE LET c == SkipWs(toks, i + 1)
             IN  IF c > Len(toks) \/ toks[c] # ":" THEN ParseFail
                 ELSE LET r == ParseValue(toks, c + 1)
                      IN  IF ~r.ok THEN ParseFail
                          ELSE LET j == SkipWs(toks, r.next)
                                   acc2 == ObjSet(acc, StrLex[toks[i]], r.v)
                               IN  IF j > Len(toks) THEN ParseFail
                                   ELSE IF toks[j] = "}" THEN ParseOk(JObj(acc2), j + 1)
                                   ELSE IF toks[j] = "," THEN ParseMembers(toks, j + 1, acc2)
                                   ELSE ParseFail

\* json.loads(text): ok = FALSE is json.JSONDecodeError.
JsonLoads(text) ==
    LET r == ParseValue(text, 1)
    IN  IF r.ok /\ SkipWs(text, r.next) = Len(text) + 1 THEN [ok |-> TRUE, v |-> r.v]
        ELSE [ok |-> FALSE, v |-> JNull]

RECURSIVE SortItems(_)
\* The items of a dict in key order (insertion sort on KeyRank).
SortItems(items) ==
    IF items = << >> THEN << >>
    ELSE LET m == CHOOSE i \in 1..Len(items) :
                      \A j \in 1..Len(items) : KeyRank(items[i].k) <= KeyRank(items[j].k)
         IN  <<items[m]>> \o SortItems(SubSeq(items, 1, m - 1) \o SubSeq(items, m + 1, Len(items)))

RECURSIVE Spaces(_)
Spaces(n) == IF n = 0 THEN << >> ELSE <<" ">> \o Spaces(n - 1)

\* The newline and indentation json.dumps writes before an item at nesting level lvl.
NewLine(indent, lvl) == IF indent = 0 THEN << >> ELSE <<"\n">> \o Spaces(indent * lvl)

\* json.dumps's item separator: ", " without indent, "," and a new line with it.
ItemSep(indent, lvl) == IF indent = 0 THEN <<",", " ">> ELSE <<",">> \o NewLine(indent, lvl)

RECURSIVE DumpValue(_, _, _, _), DumpKids(_, _, _, _, _)
\* json.dumps(v, sort_keys=sort, indent=indent) at nesting level lvl (indent = 0: no indent).
DumpValue(v, sort, indent, lvl) ==
    CASE v.t = "str" -> <<LexOf(TextAtom(v.s))>>
      [] v.t \in {"int", "float", "bool"} -> v.s
      [] v.t = "null" -> <<"null">>
      [] v.t = "list" ->
            IF v.kids = << >> THEN <<"[", "]">>
            ELSE <<"[">> \o NewLine(indent, lvl + 1) \o DumpKids(v.kids, FALSE, sort, indent, lvl + 1)
                 \o NewLine(indent, lvl) \o <<"]">>
      [] v.t = "dict" ->
            IF v.kids = << >> THEN <<"{", "}">>
            ELSE <<"{">> \o NewLine(indent, lvl + 1)
                 \o DumpKids(IF sort THEN SortItems(v.kids) ELSE v.kids, TRUE, sort, indent, lvl + 1)
                 \o NewLine(indent, lvl) \o <<"}">>

DumpKids(kids, keyed, sort, indent, lvl) ==
    IF kids = << >> THEN << >>
    ELSE (IF keyed THEN <<LexOf(kids[1].k), ":", " ">> ELSE << >>)
         \o DumpValue(kids[1].v, sort, indent, lvl)
         \o (IF Len(kids) > 1 THEN ItemSep(indent, lvl) ELSE << >>)
         \o DumpKids(Tail(kids), keyed, sort, indent, lvl)

\* json.dumps(v)
JsonDumps(v) == DumpValue(v, FALSE, 0, 0)

\* json.dumps(v, sort_keys=True)
JsonDumpsSorted(v) == DumpValue(v, TRUE, 0, 0)

\* json.dumps(v, indent=2, sort_keys=True)
JsonDumpsPretty(v) == DumpValue(v, TRUE, 2, 0)

\* dict access helpers
HasKey(d, k) == d.t = "dict" /\ \E i \in 1..Len(d.kids) : d.kids[i].k = k

Get(d, k) == d.kids[CHOOSE i \in 1..Len(d.kids) : d.kids[i].k = k].v

(***************************************************************************)
(* Python values as text: f"{value}", and truthiness                       *)
(***************************************************************************)
IsZeroNumber(digits) == \A i \in 1..Len(digits) : digits[i] \in {"0", "-", "."}

\* bool(v)
PyTruthy(v) ==
    CASE v.t = "str" -> v.s # << >>
      [] v.t \in {"int", "float"} -> ~IsZeroNumber(v.s)
      [] v.t = "bool" -> v.s = <<"true">>
      [] v.t = "null" -> FALSE
      [] OTHER -> v.kids # << >>

RECURSIVE PyRepr(_), PyReprKids(_, _)
\* repr(v)
PyRepr(v) ==
    CASE v.t = "str" -> <<"'">> \o v.s \o <<"'">>
      [] v.t \in {"int", "float"} -> v.s
      [] v.t = "bool" -> IF v.s = <<"true">> THEN <<"True">> ELSE <<"False">>
      [] v.t = "null" -> <<"None">>
      [] v.t = "list" -> <<"[">> \o PyReprKids(v.kids, FALSE) \o <<"]">>
      [] OTHER -> <<"{">> \o PyReprKids(v.kids, TRUE) \o <<"}">>

PyReprKids(kids, keyed) ==
    IF kids = << >> THEN << >>
    ELSE (IF keyed THEN <<"'">> \o AtomText(kids[1].k) \o <<"'", ":", " ">> ELSE << >>)
         \o PyRepr(kids[1].v)
         \o (IF Len(kids) > 1 THEN <<",", " ">> ELSE << >>)
         \o PyReprKids(Tail(kids), keyed)

\* str(v), what an f-string writes
PyStr(v) == IF v.t = "str" THEN v.s ELSE PyRepr(v)

(***************************************************************************)
(* Bytes and text: bytes.decode("utf-8")                                   *)
(***************************************************************************)
\* A byte that is not valid UTF-8, and the character errors="replace" puts in its place.
BadByte == "<ff>"

ReplacementChar == "<U+FFFD>"

\* bytes.decode("utf-8"): ok = FALSE is UnicodeDecodeError.
DecodeStrict(bytes) ==
    IF BadByte \in Range(bytes) THEN [ok |-> FALSE, text |-> << >>] ELSE [ok |-> TRUE, text |-> bytes]

\* bytes.decode("utf-8", errors="replace")
DecodeReplace(bytes) == [i \in 1..Len(bytes) |-> IF bytes[i] = BadByte THEN ReplacementChar ELSE bytes[i]]

(***************************************************************************)
(* Results of a call: a returned value or a raised exception               *)
(***************************************************************************)
Returned(v) == [kind |-> "returned", exc |-> "", message |-> << >>, value |-> v]

Raised(exc, message) == [kind |-> "raised", exc |-> exc, message |-> message, value |-> JNull]

Pending == [kind |-> "pending", exc |-> "", message |-> << >>, value |-> JNull]

\* urllib.request.Request(url=, data=, headers=, method=), opened with timeout=
Request(method, url, headers, data, timeout) ==
    [method |-> method, url |-> url, headers |-> headers, data |-> data, timeout |-> timeout]

(***************************************************************************)
(* cynsta_spendguard_cli/main.py                                           *)
(***************************************************************************)
\* The request timeout, in seconds.
Timeout == 30

\* ok = FALSE is argparse.ArgumentTypeError.
_non_negative_int(value) ==
    LET parsed == PyInt(value)
    IN  IF ~parsed.ok THEN [ok |-> FALSE, n |-> 0, message |-> <<"must be an integer">>]
        ELSE IF parsed.n < 0 THEN [ok |-> FALSE, n |-> 0, message |-> <<"must be >= 0">>]
        ELSE [ok |-> TRUE, n |-> parsed.n, message |-> << >>]

Sidecar == <<"s", "i", "d", "e", "c", "a", "r">>

Hosted == <<"h", "o", "s", "t", "e", "d">>

_mode(e) == Lower(Strip(Or2(e.CAP_MODE, Sidecar)))

DefaultBaseUrl == <<"http://localhost:8787">>

\* _base_url returning raw as it is.
_base_url_NoStrip(value, e) == Or2(value, Or2(e.CAP_BASE_URL, DefaultBaseUrl))

_base_url(value, e) == RStrip(Or2(value, Or2(e.CAP_BASE_URL, DefaultBaseUrl)), "/")

_headers(api_key) ==
    IF Truthy(api_key)
    THEN ("Content-Type" :> <<"application/json">>) @@ ("x-api-key" :> api_key)
    ELSE ("Content-Type" :> <<"application/json">>)

_extract_detail_RawOnly(raw_body) == IF raw_body = << >> THEN <<"request failed">> ELSE raw_body

_extract_detail(raw_body) ==
    IF raw_body = << >> THEN <<"request failed">>
    ELSE LET parsed == JsonLoads(raw_body)
         IN  IF ~parsed.ok THEN raw_body
             ELSE IF HasKey(parsed.v, "detail") /\ Get(parsed.v, "detail").t = "str"
                  THEN Get(parsed.v, "detail").s
                  ELSE raw_body

\* The part of _request_json after the body was read and decoded (lines 75-83).
NormalizeBody(response_body) ==
    IF response_body = << >> THEN Returned(JObj(<< >>))
    ELSE LET parsed == JsonLoads(response_body)
         IN  IF ~parsed.ok THEN Raised("CliError", <<"Server response was ", "not valid JSON">>)
             ELSE IF parsed.v.t # "dict"
                  THEN Raised("CliError", <<"Server response ", "must be a JSON object">>)
                  ELSE Returned(parsed.v)

\* _request_json, given what urlopen produces (rep) for the one request it opens.
_request_json(rep) ==
    CASE rep.kind = "http_error" ->
            Raised("CliError",
                   <<"HTTP ">> \o IntText(rep.status) \o <<": ">> \o _extract_detail(DecodeReplace(rep.body)))
      [] rep.kind = "url_error" -> Raised("CliError", <<"Request failed: ">> \o rep.reason)
      [] rep.kind = "read_timeout" -> Raised("TimeoutError", rep.reason)
      [] OTHER ->
            LET decoded == DecodeStrict(rep.body)
            IN  IF ~decoded.ok THEN Raised("UnicodeDecodeError", <<"'utf-8' codec can't decode byte">>)
                ELSE NormalizeBody(decoded.text)

_resolve_api_key_EnvFirst(args, e) ==
    LET api_key == Or2(e.CAP_API_KEY, args.api_key)
    IN  IF _mode(e) = Hosted /\ ~Truthy(api_key)
        THEN [ok |-> FALSE, key |-> None]
        ELSE [ok |-> TRUE, key |-> api_key]

_resolve_api_key_NoCheck(args, e) == [ok |-> TRUE, key |-> Or2(args.api_key, e.CAP_API_KEY)]

\* ok = FALSE is CliError("Hosted mode requires API key via --api-key or CAP_API_KEY").
_resolve_api_key(args, e) ==
    LET api_key == Or2(args.api_key, e.CAP_API_KEY)
    IN  IF _mode(e) = Hosted /\ ~Truthy(api_key)
        THEN [ok |-> FALSE, key |-> None]
        ELSE [ok |-> TRUE, key |-> api_key]

AuthError == Raised("CliError", <<"Hosted mode ", "requires API key", " via --api-key or CAP_API_KEY">>)

\* data.get(key, default)
DictGet(data, key, default) == IF HasKey(data, key) THEN Get(data, key) ELSE default

BudgetKeys == <<"hard_limit_cents", "remaining_cents", "locked_cents", "locked_run_id", "locked_expires_at">>

RECURSIVE PrintBudgetKeys(_, _)
PrintBudgetKeys(data, keys) ==
    IF keys = << >> THEN << >>
    ELSE (IF HasKey(data, keys[1]) THEN << <<keys[1], "=">> \o PyStr(Get(data, keys[1])) >> ELSE << >>)
         \o PrintBudgetKeys(data, Tail(keys))

\* The lines _print_budget prints (each print call is one line).
_print_budget(data, fallback_agent_id) ==
    (IF Truthy(fallback_agent_id)
     THEN << <<"agent_id", "=">> \o PyStr(DictGet(data, "agent_id", JStr(fallback_agent_id))) >>
     ELSE IF HasKey(data, "agent_id") THEN << <<"agent_id", "=">> \o PyStr(Get(data, "agent_id")) >>
     ELSE << >>)
    \o PrintBudgetKeys(data, BudgetKeys)

\* _print_agent printing name and created_at whenever the result holds them.
_print_agent_Present(data, fallback_agent_id) ==
    << <<"agent_id", "=">> \o PyStr(DictGet(data, "agent_id", JStr(Or2(fallback_agent_id, << >>))))
       \o (IF HasKey(data, "name") THEN <<" ", "name", "=">> \o PyStr(Get(data, "name")) ELSE << >>)
       \o (IF HasKey(data, "created_at") THEN <<" ", "created_at", "=">> \o PyStr(Get(data, "created_at"))
           ELSE << >>) >>

\* The line _print_agent prints.
_print_agent(data, fallback_agent_id) ==
    LET agent_id == DictGet(data, "agent_id", JStr(Or2(fallback_agent_id, << >>)))
        name == DictGet(data, "name", JNull)
        created_at == DictGet(data, "created_at", JNull)
    IN  << <<"agent_id", "=">> \o PyStr(agent_id)
           \o (IF PyTruthy(name) THEN <<" ", "name", "=">> \o PyStr(name) ELSE << >>)
           \o (IF PyTruthy(created_at) THEN <<" ", "created_at", "=">> \o PyStr(created_at) ELSE << >>) >>

\* A handler that renders before it looks at how _request_json ended.
HandlerResult_RenderFirst(auth, req, r, out) ==
    IF ~auth.ok THEN [requests |-> << >>, result |-> AuthError, stdout |-> << >>]
    ELSE [requests |-> <<req>>, result |-> r, stdout |-> out]

\* What a handler did: the requests it opened, how it ended (r is what _request_json
\* produced for the request), what it printed (out, the rendering of the returned data).
HandlerResult(auth, req, r, out) ==
    IF ~auth.ok THEN [requests |-> << >>, result |-> AuthError, stdout |-> << >>]
    ELSE IF r.kind # "returned" THEN [requests |-> <<req>>, result |-> r, stdout |-> << >>]
    ELSE [requests |-> <<req>>, result |-> r, stdout |-> out]

\* print(json.dumps(data, indent=2, sort_keys=True))
PrintJson(data) == <<JsonDumpsPretty(data)>>

AgentUrl(args, e) == _base_url(args.base_url, e) \o <<"/v1/agents/">> \o Quote(args.agent, {})

AgentCreatePayload(args) ==
    IF Truthy(args.name) THEN JObj(<<Item("name", JStr(args.name))>>) ELSE JObj(<< >>)

\* Lines 129-137: what agent create prints.
RenderCreated(args, data) ==
    IF args.json THEN PrintJson(data)
    ELSE IF HasKey(data, "agent_id") THEN << <<"agent_id", "=">> \o PyStr(Get(data, "agent_id")) >>
    ELSE <<JsonDumpsSorted(data)>>

\* The handlers, given what _request_json produced (r) for the request they open.
AgentCreateGiven(args, e, r) ==
    LET auth == _resolve_api_key(args, e)
        endpoint == _base_url(args.base_url, e) \o <<"/v1/agents">>
    IN  HandlerResult(auth,
            Request("POST", endpoint, _headers(auth.key), JsonDumps(AgentCreatePayload(args)), Timeout),
            r, RenderCreated(args, r.value))

_cmd_agent_create(args, e, rep) == AgentCreateGiven(args, e, _request_json(rep))

RECURSIVE PrintRows_All(_)
\* The loop of _cmd_agent_list without its isinstance(row, dict) test.
PrintRows_All(rows) ==
    IF rows = << >> THEN << >> ELSE _print_agent(rows[1].v, None) \o PrintRows_All(Tail(rows))

RECURSIVE PrintRows(_)
PrintRows(rows) ==
    IF rows = << >> THEN << >>
    ELSE (IF rows[1].v.t # "dict" THEN << >> ELSE _print_agent(rows[1].v, None)) \o PrintRows(Tail(rows))

\* The "agents" check applied before the --json branch as well.
AgentsListCheck_Always(args, r) ==
    IF r.kind = "returned" /\ DictGet(r.value, "agents", JNull).t # "list"
    THEN Raised("CliError", <<"Server response missing agents list">>)
    ELSE r

\* Lines 150-152: without --json a result whose "agents" is no list raises CliError.
AgentsListCheck(args, r) ==
    IF r.kind = "returned" /\ ~args.json /\ DictGet(r.value, "agents", JNull).t # "list"
    THEN Raised("CliError", <<"Server response missing agents list">>)
    ELSE r

\* Lines 146-159: what agent list prints (without --json, "agents" is a list here).
RenderList(args, data) ==
    IF args.json THEN PrintJson(data)
    ELSE IF DictGet(data, "agents", JArr(<< >>)).kids = << >> THEN << <<"(no agents)">> >>
    ELSE PrintRows(DictGet(data, "agents", JArr(<< >>)).kids)

AgentListGiven(args, e, r) ==
    LET auth == _resolve_api_key(args, e)
        endpoint == _base_url(args.base_url, e) \o <<"/v1/agents">>
    IN  HandlerResult(auth, Request("GET", endpoint, _headers(auth.key), None, Timeout),
            AgentsListCheck(args, r), RenderList(args, r.value))

_cmd_agent_list(args, e, rep) == AgentListGiven(args, e, _request_json(rep))

\* What agent get and agent rename print.
RenderAgent(args, data) == IF args.json THEN PrintJson(data) ELSE _print_agent(data, args.agent)

AgentGetGiven(args, e, r) ==
    LET auth == _resolve_api_key(args, e)
    IN  HandlerResult(auth, Request("GET", AgentUrl(args, e), _headers(auth.key), None, Timeout),
            r, RenderAgent(args, r.value))

_cmd_agent_get(args, e, rep) == AgentGetGiven(args, e, _request_json(rep))

AgentRenameGiven(args, e, r) ==
    LET auth == _resolve_api_key(args, e)
        payload == JObj(<<Item("name", JStr(args.name))>>)
    IN  HandlerResult(auth, Request("PATCH", AgentUrl(args, e), _headers(auth.key), JsonDumps(payload), Timeout),
            r, RenderAgent(args, r.value))

_cmd_agent_rename(args, e, rep) == AgentRenameGiven(args, e, _request_json(rep))

\* agent delete confirming on any truthy "deleted".
RenderDeleted_Truthy(args, data) ==
    IF args.json THEN PrintJson(data)
    ELSE IF PyTruthy(DictGet(data, "deleted", JNull))
         THEN << <<"deleted ", "agent_id", "=">> \o PyStr(DictGet(data, "agent_id", JStr(args.agent))) >>
         ELSE <<JsonDumpsSorted(data)>>

\* Lines 194-202: what agent delete prints.
RenderDeleted(args, data) ==
    IF args.json THEN PrintJson(data)
    ELSE IF DictGet(data, "deleted", JNull) = JBool(TRUE)
         THEN << <<"deleted ", "agent_id", "=">> \o PyStr(DictGet(data, "agent_id", JStr(args.agent))) >>
         ELSE <<JsonDumpsSorted(data)>>

AgentDeleteGiven(args, e, r) ==
    LET auth == _resolve_api_key(args, e)
    IN  HandlerResult(auth, Request("DELETE", AgentUrl(args, e), _headers(auth.key), None, Timeout),
            r, RenderDeleted(args, r.value))

_cmd_agent_delete(args, e, rep) == AgentDeleteGiven(args, e, _request_json(rep))

BudgetSetPayload_Swapped(args) ==
    JObj(<<Item("hard_limit_cents", JNum(IntText(args.topup))), Item("topup_cents", JNum(IntText(args.limit)))>>)

\* The payload of _cmd_budget_set (line 210).
BudgetSetPayload(args) ==
    JObj(<<Item("hard_limit_cents", JNum(IntText(args.limit))), Item("topup_cents", JNum(IntText(args.topup)))>>)

\* What budget set and budget get print.
RenderBudget(args, data) == IF args.json THEN PrintJson(data) ELSE _print_budget(data, args.agent)

BudgetSetGiven(args, e, r) ==
    LET auth == _resolve_api_key(args, e)
        endpoint == AgentUrl(args, e) \o <<"/budget">>
    IN  HandlerResult(auth,
            Request("POST", endpoint, _headers(auth.key), JsonDumps(BudgetSetPayload(args)), Timeout),
            r, RenderBudget(args, r.value))

_cmd_budget_set(args, e, rep) == BudgetSetGiven(args, e, _request_json(rep))

BudgetGetGiven(args, e, r) ==
    LET auth == _resolve_api_key(args, e)
        endpoint == AgentUrl(args, e) \o <<"/budget">>
    IN  HandlerResult(auth, Request("GET", endpoint, _headers(auth.key), None, Timeout),
            r, RenderBudget(args, r.value))

_cmd_budget_get(args, e, rep) == BudgetGetGiven(args, e, _request_json(rep))

(***************************************************************************)
(* build_parser and parse_args                                             *)
(***************************************************************************)
Flags == {"agent", "name", "limit", "topup", "base_url", "api_key"}

Shared == {"base_url", "api_key"}

\* The sub-commands build_parser registers: the flags each accepts, those it requires, its handler.
SubCommands ==
    (<<"agent", "create">> :> [accepts |-> Shared \cup {"name"}, requires |-> {}, handler |-> "_cmd_agent_create"]) @@
    (<<"agent", "list">> :> [accepts |-> Shared, requires |-> {}, handler |-> "_cmd_agent_list"]) @@
    (<<"agent", "get">> :> [accepts |-> Shared \cup {"agent"}, requires |-> {"agent"}, handler |-> "_cmd_agent_get"]) @@
    (<<"agent", "rename">> :>
        [accepts |-> Shared \cup {"agent", "name"}, requires |-> {"agent", "name"}, handler |-> "_cmd_agent_rename"]) @@
    (<<"agent", "delete">> :>
        [accepts |-> Shared \cup {"agent"}, requires |-> {"agent"}, handler |-> "_cmd_agent_delete"]) @@
    (<<"budget", "get">> :> [accepts |-> Shared \cup {"agent"}, requires |-> {"agent"}, handler |-> "_cmd_budget_get"]) @@
    (<<"budget", "set">> :>
        [accepts |-> Shared \cup {"agent", "limit", "topup"}, requires |-> {"agent", "limit"},
         handler |-> "_cmd_budget_set"])

GivenFlags(av) == {f \in Flags : av[f] # None}

\* parser.parse_args(argv): "usage" is argparse's error exit (SystemExit(2)), "help" is a
\* command line that selects no handler, "handler" a parsed namespace with its handler.
parse_args(av) ==
    LET cmd == av.command
        noHandler == cmd \in {<< >>, <<"agent">>, <<"budget">>}
        sub == SubCommands[cmd]
        limit == _non_negative_int(av.limit)
        topup == _non_negative_int(av.topup)
    IN  IF ~noHandler /\ cmd \notin DOMAIN SubCommands THEN [kind |-> "usage"]
        ELSE IF noHandler
             THEN IF GivenFlags(av) # {} \/ av.json THEN [kind |-> "usage"] ELSE [kind |-> "help"]
        ELSE IF ~(GivenFlags(av) \subseteq sub.accepts) THEN [kind |-> "usage"]
        ELSE IF ~(sub.requires \subseteq GivenFlags(av)) THEN [kind |-> "usage"]
        ELSE IF av.limit # None /\ ~limit.ok THEN [kind |-> "usage"]
        ELSE IF av.topup # None /\ ~topup.ok THEN [kind |-> "usage"]
        ELSE [kind |-> "handler",
              handler |-> sub.handler,
              args |-> [agent |-> av.agent, name |-> av.name, base_url |-> av.base_url,
                        api_key |-> av.api_key, json |-> av.json,
                        limit |-> IF av.limit # None THEN limit.n ELSE 0,
                        topup |-> IF av.topup # None THEN topup.n ELSE 0]]

(***************************************************************************)
(* run and main                                                            *)
(***************************************************************************)
\* handler(args): the handler set_defaults attached to the sub-command.
CallHandler(handler, args, e, rep) ==
    CASE handler = "_cmd_agent_create" -> _cmd_agent_create(args, e, rep)
      [] handler = "_cmd_agent_list" -> _cmd_agent_list(args, e, rep)
      [] handler = "_cmd_agent_get" -> _cmd_agent_get(args, e, rep)
      [] handler = "_cmd_agent_rename" -> _cmd_agent_rename(args, e, rep)
      [] handler = "_cmd_agent_delete" -> _cmd_agent_delete(args, e, rep)
      [] handler = "_cmd_budget_set" -> _cmd_budget_set(args, e, rep)
      [] handler = "_cmd_budget_get" -> _cmd_budget_get(args, e, rep)

HelpText == <<"usage: spendguard [-h] {agent,budget} ...">>

UsageText == <<"usage: spendguard ... error: ">>

\* parse_args left through argparse's error: usage message, SystemExit(2).
UsageExit == [requests |-> << >>, result |-> Raised("SystemExit", UsageText), stdout |-> << >>, rc |-> Running]

\* Lines 302-304: no handler, the help is printed and run returns 2.
HelpReturn == [requests |-> << >>, result |-> Returned(JNull), stdout |-> <<HelpText>>, rc |-> 2]

\* Line 305: the handler's result; every handler that returns, returns 0.
HandlerReturn(h) ==
    [requests |-> h.requests, result |-> h.result, stdout |-> h.stdout,
     rc |-> IF h.result.kind = "returned" THEN 0 ELSE Running]

\* What run does with the parsed command line p (lines 301-305); rc is the value returned
\* (Running when an exception leaves run).
RunParsed(p, e, rep) ==
    CASE p.kind = "usage" -> UsageExit
      [] p.kind = "help" -> HelpReturn
      [] OTHER -> HandlerReturn(CallHandler(p.handler, p.args, e, rep))

\* run(argv)
run(av, e, rep) == RunParsed(parse_args(av), e, rep)

\* main printing a CliError and returning 2 for it.
MainResult_ErrorAsUsage(r) ==
    [requests |-> r.requests, result |-> r.result, stdout |-> r.stdout,
     stderr |-> IF r.result.kind = "returned" THEN << >> ELSE <<r.result.message>>,
     exit_code |-> IF r.result.kind = "returned" THEN r.rc ELSE 2]

\* What main makes of run's result r, and the interpreter's exit when an exception leaves
\* main: SystemExit carries its code, any other exception prints a traceback and exits 1.
MainResult(r) ==
    [requests |-> r.requests, result |-> r.result, stdout |-> r.stdout,
     stderr |->
        CASE r.result.kind = "returned" -> << >>
          [] r.result.exc \in {"CliError", "SystemExit"} -> <<r.result.message>>
          [] OTHER -> <<<<"Traceback (most recent call last):">>, <<r.result.exc, ": ">> \o r.result.message>>,
     exit_code |->
        CASE r.result.kind = "returned" -> r.rc
          [] r.result.exc = "SystemExit" -> 2
          [] OTHER -> 1]

\* main()
main(av, e, rep) == MainResult(run(av, e, rep))

(***************************************************************************)
(* spendguard_sdk/client.py                                                *)
(***************************************************************************)
\* SpendGuardClient.__init__
SpendGuardClient(base_url, api_key) == [base_url |-> RStrip(base_url, "/"), api_key |-> api_key]

\* Python arguments of set_budget: an int, a float (n its integer part), a str, or None.
PyIntArg(n) == [t |-> "int", n |-> n, s |-> << >>]

PyFloatArg(n, text) == [t |-> "float", n |-> n, s |-> text]

PyStrArg(text) == [t |-> "str", n |-> 0, s |-> text]

PyNoneArg == [t |-> "NoneType", n |-> 0, s |-> << >>]

\* int(x): ok = FALSE is the exception exc.
IntOf(x) ==
    CASE x.t \in {"int", "float"} -> [ok |-> TRUE, n |-> x.n, exc |-> ""]
      [] x.t = "str" -> [ok |-> PyInt(x.s).ok, n |-> PyInt(x.s).n, exc |-> "ValueError"]
      [] OTHER -> [ok |-> FALSE, n |-> 0, exc |-> "TypeError"]

\* _request_json opening the request again when the first attempt raised.
SpendGuardClient_request_json_Retry(self, method, path, payload, rep) ==
    LET req == Request(method, self.base_url \o path, ("Accept" :> <<"application/json">>), None, Timeout)
    IN  IF rep.kind = "response"
        THEN [requests |-> <<req>>, result |-> Returned(JObj(<< >>))]
        ELSE [requests |-> <<req, req>>, result |-> Raised("URLError", rep.reason)]

\* SpendGuardClient._request_json: the request it opens and how it ends.
SpendGuardClient_request_json(self, method, path, payload, rep) ==
    LET base == ("Accept" :> <<"application/json">>)
        withBody == IF payload # JNull THEN base @@ ("Content-Type" :> <<"application/json">>) ELSE base
        headers == IF Truthy(self.api_key) THEN withBody @@ ("x-api-key" :> self.api_key) ELSE withBody
        body == IF payload # JNull THEN JsonDumps(payload) ELSE None
        req == Request(method, self.base_url \o path, headers, body, Timeout)
        decoded == DecodeStrict(rep.body)
        parsed == JsonLoads(decoded.text)
    IN  [requests |-> <<req>>,
         result |->
            CASE rep.kind = "http_error" -> Raised("HTTPError", <<"HTTP Error ">> \o IntText(rep.status))
              [] rep.kind = "url_error" -> Raised("URLError", rep.reason)
              [] rep.kind = "read_timeout" -> Raised("TimeoutError", rep.reason)
              [] ~decoded.ok -> Raised("UnicodeDecodeError", <<"'utf-8' codec can't decode byte">>)
              [] decoded.text = << >> -> Returned(JObj(<< >>))
              [] ~parsed.ok -> Raised("JSONDecodeError", <<"Expecting value">>)
              [] parsed.v.t # "dict" -> Raised("RuntimeError", <<"Expected JSON object response">>)
              [] OTHER -> Returned(parsed.v)]

create_agent(self, call, rep) ==
    SpendGuardClient_request_json(self, "POST", <<"/v1/agents">>,
        IF call.name # None THEN JObj(<<Item("name", JStr(call.name))>>) ELSE JObj(<< >>), rep)

list_agents(self, call, rep) == SpendGuardClient_request_json(self, "GET", <<"/v1/agents">>, JNull, rep)

set_budget(self, call, rep) ==
    LET hard == IntOf(call.hard_limit_cents)
        topup == IntOf(call.topup_cents)
    IN  IF ~hard.ok THEN [requests |-> << >>, result |-> Raised(hard.exc, <<"int()">>)]
        ELSE IF ~topup.ok THEN [requests |-> << >>, result |-> Raised(topup.exc, <<"int()">>)]
        ELSE SpendGuardClient_request_json(self, "POST", <<"/v1/agents/">> \o call.agent_id \o <<"/budget">>,
                JObj(<<Item("hard_limit_cents", JNum(IntText(hard.n))), Item("topup_cents", JNum(IntText(topup.n)))>>),
                rep)

get_budget(self, call, rep) ==
    SpendGuardClient_request_json(self, "GET", <<"/v1/agents/">> \o call.agent_id \o <<"/budget">>, JNull, rep)

create_run(self, call, rep) ==
    SpendGuardClient_request_json(self, "POST", <<"/v1/agents/">> \o call.agent_id \o <<"/runs">>, JObj(<< >>), rep)

\* The four proxy calls differ in the last path segments only.
ProxyCall(self, call, suffix, rep) ==
    SpendGuardClient_request_json(self, "POST",
        <<"/v1/agents/">> \o call.agent_id \o <<"/runs/">> \o call.run_id \o suffix, call.payload, rep)

openai_chat_completions(self, call, rep) == ProxyCall(self, call, <<"/openai/chat/completions">>, rep)

openai_responses(self, call, rep) == ProxyCall(self, call, <<"/openai/responses">>, rep)

grok_chat_completions(self, call, rep) == ProxyCall(self, call, <<"/grok/chat/completions">>, rep)

grok_responses(self, call, rep) == ProxyCall(self, call, <<"/grok/responses">>, rep)

\* The methods the class defines; a call of any other name raises AttributeError.
ClientMethods ==
    {"create_agent", "list_agents", "set_budget", "get_budget", "create_run", "openai_chat_completions",
     "openai_responses", "grok_chat_completions", "grok_responses"}

(***************************************************************************)
(* Inputs: command lines, environments, calls and replies                  *)
(***************************************************************************)
Argv(cmd, agent, name, limit, topup, base_url, api_key, json) ==
    [command |-> cmd, agent |-> agent, name |-> name, limit |-> limit, topup |-> topup,
     base_url |-> base_url, api_key |-> api_key, json |-> json]

Env(mode, api_key, base_url) == [CAP_MODE |-> mode, CAP_API_KEY |-> api_key, CAP_BASE_URL |-> base_url]

NoEnv == Env(None, None, None)

Call(method, agent_id, run_id, name, hard_limit_cents, topup_cents, payload, base_url, api_key) ==
    [method |-> method, agent_id |-> agent_id, run_id |-> run_id, name |-> name,
     hard_limit_cents |-> hard_limit_cents, topup_cents |-> topup_cents, payload |-> payload,
     base_url |-> base_url, api_key |-> api_key]

\* What urlopen produces: a 2xx response, an HTTPError (non-2xx status) or a URLError.
Response(status, body) == [kind |-> "response", status |-> status, body |-> body, reason |-> << >>]

HttpError(status, body) == [kind |-> "http_error", status |-> status, body |-> body, reason |-> << >>]

UrlError(reason) == [kind |-> "url_error", status |-> 0, body |-> << >>, reason |-> reason]

\* urlopen returned a response and the socket timed out in response.read(): the socket's
\* TimeoutError, which urlopen wraps into URLError only while it sends the request.
ReadTimeout == [kind |-> "read_timeout", status |-> 200, body |-> << >>, reason |-> <<"timed out">>]

BAgent == <<"{", "\"agent_id\"", ":", "\"a1\"", ",", "\"name\"", ":", "\"alpha\"", "}">>

BAgents ==
    <<"{", "\"agents\"", ":", "[", "{", "\"agent_id\"", ":", "\"a1\"", "}", ",", "1", ",",
      "{", "\"name\"", ":", "\"x\"", "}", "]", "}">>

BNoAgents == <<"{", "\"agents\"", ":", "[", "]", "}">>

BDeleted == <<"{", "\"agent_id\"", ":", "\"a1\"", ",", "\"deleted\"", ":", "true", "}">>

BBudget ==
    <<"{", "\"remaining_cents\"", ":", "-", "5", ",", "\"hard_limit_cents\"", ":", "5", "0", ",",
      "\"x\"", ":", "null", "}">>

BDetail == <<"{", "\"detail\"", ":", "\"x\"", "}">>

BDetailNotStr == <<"{", "\"detail\"", ":", "[", "\"x\"", "]", "}">>

BTwoDetails == <<"{", "\"detail\"", ":", "1", ",", "\"x\"", ":", "1", ",", "\"detail\"", ":", "\"a1\"", "}">>

BHtml == <<"<html>", "Bad Gateway", "</html>">>

\* Reply bodies chosen by hand: the shapes the handlers and the normalizer tell apart.
CuratedBodies ==
    {<< >>, <<"{", "}">>, BAgent, BAgents, BNoAgents, BDeleted, BBudget, BDetail, BDetailNotStr, BTwoDetails,
     BHtml, <<" ">>, <<"null">>, <<"[", "1", ",", "1", "]">>, <<"\"x\"">>, <<"1", ".", "5">>, <<"{", "}", "{", "}">>,
     <<"{", "\"x\"", ":", "-", "0", ",", "\"detail\"", ":", "[", "1", ".", "5", "0", ",", "null", "]", "}">>,
     <<BadByte>>, <<"{", "\"detail\"", ":", "\"x\"", BadByte>>, <<"{", "\"detail\"", ":", "\"\"", "}">>, <<" ", "{", "\"x\"", ":", "true", "}", "\n">>}

BodyAlphabet == {"{", "}", "[", "]", ":", "\"detail\"", "\"x\"", "1", BadByte}

AllBodies == SeqsUpTo(BodyAlphabet, MaxBodyLen) \cup CuratedBodies

IdAlphabet == {"a", "/", " ", "%", "2", "0"}

AllIds == SeqsUpTo(IdAlphabet, MaxIdLen)

IntAlphabet == {"0", "1", "7", "-", "+", " ", "_", "x"}

AllIntTexts == SeqsUpTo(IntAlphabet, MaxIntLen) \cup {<<"1", ".", "5">>}

ShoutedHosted == <<" ", "H", "O", "S", "T", "E", "D", " ">>

Modes == {None, << >>, Sidecar, Hosted, ShoutedHosted, <<"x">>}

FlagKeys == {None, << >>, <<"kf">>}

EnvKeys == {None, << >>, <<"ke">>}

BaseUrls == {None, << >>, <<"http://h">>, <<"http://h", "/", "/">>}

\* The values a flag takes on a command line: None (not given) where the command does not accept it.
FlagDomain(cmd, flag, values) ==
    IF cmd \in DOMAIN SubCommands /\ flag \in SubCommands[cmd].accepts THEN values ELSE {None}

CliInputs(cmds, agents, names, limits, topups, urls, keys, jsons, envs, replies) ==
    UNION {[surface : {"cli"},
            argv : [command : {c}, agent : FlagDomain(c, "agent", agents), name : FlagDomain(c, "name", names),
                    limit : FlagDomain(c, "limit", limits), topup : FlagDomain(c, "topup", topups),
                    base_url : FlagDomain(c, "base_url", urls), api_key : FlagDomain(c, "api_key", keys),
                    json : jsons],
            env : envs, reply : replies] : c \in cmds}

LibInputs(methods, ids, runs, names, hards, topups, payloads, urls, keys, replies) ==
    [surface : {"lib"},
     argv : [method : methods, agent_id : ids, run_id : runs, name : names, hard_limit_cents : hards,
             topup_cents : topups, payload : payloads, base_url : urls, api_key : keys],
     env : {NoEnv}, reply : replies]

PathMethods ==
    {"set_budget", "get_budget", "create_run", "openai_chat_completions", "openai_responses",
     "grok_chat_completions", "grok_responses"}

\* Names the tests call that the class does not define.
MissingMethods == {"get_agent", "rename_agent", "delete_agent"}

HelpCommands == {<< >>, <<"agent">>, <<"budget">>}

\* One invocation of every command, method and parser outcome.
SmokeInputs ==
    CliInputs(DOMAIN SubCommands \cup HelpCommands \cup {<<"bogus">>}, {<<"a">>}, {<<"alpha">>}, {<<"5">>},
              {None}, {None}, {None}, {FALSE}, {NoEnv}, {Response(200, BAgent)})
    \cup {[surface |-> "cli", argv |-> Argv(<<"agent", "list">>, <<"a">>, None, None, None, None, None, FALSE),
           env |-> NoEnv, reply |-> Response(200, BAgents)],
          [surface |-> "cli", argv |-> Argv(<<"budget", "get">>, None, None, None, None, None, None, FALSE),
           env |-> NoEnv, reply |-> Response(200, BBudget)]}
    \cup LibInputs(ClientMethods \cup MissingMethods, {<<"a">>}, {<<"r">>}, {None}, {PyIntArg(5)}, {PyIntArg(0)},
                   {JObj(<<Item("model", JStr(<<"x">>))>>)}, {<<"http://h">>}, {None}, {Response(200, BAgent)})

SomeReplies ==
    {Response(200, BAgent), Response(204, << >>), Response(200, BHtml), Response(200, <<"[", "]">>),
     Response(200, <<BadByte>>), HttpError(400, BDetail), HttpError(503, BHtml), UrlError(<<"timed out">>),
     UrlError(<<"[Errno 111] Connection refused">>), UrlError(<<"[Errno -2] Name or service not known">>),
     ReadTimeout}

Envs == [CAP_MODE : Modes, CAP_API_KEY : EnvKeys, CAP_BASE_URL : {None}]

\* Every command under every mode and key source, with a few replies.
AuthInputs ==
    CliInputs(DOMAIN SubCommands, {<<"a">>}, {<<"alpha">>}, {<<"5">>}, {None, <<"7">>}, {None}, FlagKeys,
              BOOLEAN, Envs, SomeReplies)

IntArgs ==
    {PyIntArg(5), PyIntArg(0), PyIntArg(-1), PyFloatArg(1, <<"1", ".", "5">>), PyStrArg(<<"7">>),
     PyStrArg(<<"x">>), PyNoneArg}

\* Every method with and without a key, with a few replies; set_budget with every kind of amount.
CallInputs ==
    LibInputs(ClientMethods \cup MissingMethods, {<<"a">>}, {<<"r">>}, {None, << >>, <<"alpha">>}, {PyIntArg(5)},
              {PyIntArg(0)}, {JNull, JObj(<< >>)}, {<<"http://h">>, <<"http://h", "/">>}, {None, << >>, <<"kf">>},
              SomeReplies)
    \cup LibInputs({"set_budget"}, {<<"a">>}, {<<"r">>}, {None}, IntArgs, IntArgs, {JNull}, {<<"http://h">>},
                   {None}, {Response(200, BBudget), HttpError(400, BDetail)})

PathCommands ==
    {<<"agent", "get">>, <<"agent", "rename">>, <<"agent", "delete">>, <<"budget", "get">>, <<"budget", "set">>}

\* Every path-taking command and method with every identifier up to MaxIdLen.
UrlInputs ==
    CliInputs(PathCommands, AllIds, {<<"alpha">>}, {<<"5">>}, {None}, {None, <<"http://h", "/">>}, {None},
              {FALSE}, {NoEnv}, {Response(200, BAgent)})
    \cup LibInputs(PathMethods, AllIds, {<<"r">>, <<"r", "/", "2">>}, {None}, {PyIntArg(5)}, {PyIntArg(0)},
                   {JObj(<< >>)}, {<<"http://h">>, <<"http://h", "/">>}, {None}, {Response(200, BAgent)})

\* budget set with every --limit and --topup text up to MaxIntLen; set_budget with every kind of amount.
ArgsInputs ==
    CliInputs({<<"budget", "set">>}, {<<"a">>, <<"a", "/", " ">>}, {None}, AllIntTexts \cup {None},
              {None, <<"7">>, <<"-", "1">>, <<"x">>}, {None, <<"http://h">>}, {None}, {FALSE}, {NoEnv},
              {Response(200, BBudget)})
    \cup CliInputs({<<"budget", "set">>}, {<<"a">>}, {None}, {<<"5">>}, AllIntTexts, {None}, {None}, {FALSE},
                   {NoEnv}, {Response(200, BBudget)})
    \cup LibInputs({"set_budget"}, {<<"a">>}, {<<"r">>}, {None}, IntArgs, IntArgs, {JNull}, {<<"http://h">>},
                   {None}, {Response(200, BBudget), HttpError(400, BDetail)})

\* Every reply body up to MaxBodyLen lexemes, as a 2xx response and as an error response.
AllReplies ==
    {Response(200, b) : b \in AllBodies} \cup {HttpError(400, b) : b \in AllBodies}
    \cup {Response(201, b) : b \in CuratedBodies} \cup {HttpError(503, b) : b \in CuratedBodies}
    \cup {UrlError(<<"timed out">>), ReadTimeout}

CuratedReplies == {Response(200, b) : b \in CuratedBodies} \cup {HttpError(404, b) : b \in CuratedBodies}

\* The elements of an "agents" array: agents, and values that are no JSON object.
Rows ==
    {<<"{", "\"agent_id\"", ":", "\"a1\"", ",", "\"name\"", ":", "\"alpha\"", "}">>,
     <<"{", "\"name\"", ":", "\"x\"", "}">>, <<"{", "}">>, <<"1">>, <<"\"x\"">>}

RECURSIVE JoinRows(_)
JoinRows(rows) ==
    IF rows = << >> THEN << >>
    ELSE rows[1] \o (IF Len(rows) > 1 THEN <<",">> ELSE << >>) \o JoinRows(Tail(rows))

\* The body {"agents": [rows]}.
ListBody(rows) == <<"{", "\"agents\"", ":", "[">> \o JoinRows(rows) \o <<"]", "}">>

\* agent list, with and without --json, over every "agents" array up to MaxRows elements.
ListInputs ==
    CliInputs({<<"agent", "list">>}, {None}, {None}, {None}, {None}, {None}, {None}, BOOLEAN, {NoEnv},
              {Response(200, ListBody(r)) : r \in SeqsUpTo(Rows, MaxRows)}
              \cup {Response(200, <<"{", "\"agents\"", ":", "{", "}", "}">>), Response(200, <<"{", "}">>)})

\* Replies to agent delete: "deleted" true, false, absent, and values that are no boolean,
\* with and without the agent_id.
DeletedValues == {<<"true">>, <<"false">>, <<"1">>, <<"0">>, <<"\"true\"">>, <<"null">>, <<"[", "1", "]">>}

DeletedBodies ==
    {<<"{", "\"deleted\"", ":">> \o d \o <<"}">> : d \in DeletedValues}
    \cup {<<"{", "\"x\"", ":", "1", ",", "\"deleted\"", ":">> \o d \o <<",", "\"agent_id\"", ":", "\"a1\"", "}">> :
             d \in DeletedValues}
    \cup {<<"{", "}">>, << >>, <<"{", "\"x\"", ":", "true", ",", "\"agent_id\"", ":", "\"a1\"", "}">>}

DeleteInputs ==
    CliInputs({<<"agent", "delete">>}, {<<"a">>, <<"a", "/", " ">>}, {None}, {None}, {None}, {None}, {None},
              BOOLEAN, {NoEnv}, {Response(200, b) : b \in DeletedBodies})

\* One member of a JSON object, and the object of the members that are there (<< >>: left out).
Member(key, value) == <<key, ":">> \o value

ObjBody(members) == <<"{">> \o JoinRows(SelectSeq(members, LAMBDA m : m # << >>)) \o <<"}">>

Optional(key, values) == {<< >>} \cup {Member(key, v) : v \in values}

\* Agents holding every choice of agent_id, name and created_at: absent, a text, the empty text,
\* null, a number.
AgentBodies ==
    {ObjBody(<<c, n, a>>) :
        c \in Optional("\"created_at\"", {<<"5">>, <<"0">>, <<"null">>}),
        n \in Optional("\"name\"", {<<"\"alpha\"">>, <<"\"\"">>, <<"null">>, <<"0">>}),
        a \in Optional("\"agent_id\"", {<<"\"a1\"">>, <<"\"\"">>, <<"null">>})}

\* Budgets holding every choice of the fields _print_budget knows: absent, a number, null.
BudgetBodies ==
    {ObjBody(<<e, r, l, m, h, a, <<"\"x\"", ":", "1">> >>) :
        e \in Optional("\"locked_expires_at\"", {<<"null">>}),
        r \in Optional("\"locked_run_id\"", {<<"\"x\"">>, <<"null">>}),
        l \in Optional("\"locked_cents\"", {<<"0">>}),
        m \in Optional("\"remaining_cents\"", {<<"-", "5">>, <<"null">>}),
        h \in Optional("\"hard_limit_cents\"", {<<"5">>, <<"null">>}),
        a \in Optional("\"agent_id\"", {<<"\"a1\"">>})}

\* The commands that render an agent or a budget, over those results.
RenderInputs ==
    CliInputs({<<"agent", "get">>, <<"agent", "rename">>}, {<<"a">>, << >>}, {<<"alpha">>}, {None}, {None},
              {None}, {None}, {FALSE}, {NoEnv}, {Response(200, b) : b \in AgentBodies})
    \cup CliInputs({<<"budget", "get">>, <<"budget", "set">>}, {<<"a">>, << >>}, {None}, {<<"5">>}, {None},
                   {None}, {None}, {FALSE}, {NoEnv}, {Response(200, b) : b \in BudgetBodies})

ReplyInputs ==
    CliInputs({<<"agent", "get">>}, {<<"a">>}, {None}, {None}, {None}, {None}, {None}, BOOLEAN, {NoEnv}, AllReplies)
    \cup CliInputs(DOMAIN SubCommands, {<<"a">>}, {<<"alpha">>}, {<<"5">>}, {None}, {None}, {None}, BOOLEAN,
                   {NoEnv}, CuratedReplies)
    \cup LibInputs({"get_budget"}, {<<"a">>}, {<<"r">>}, {None}, {PyIntArg(5)}, {PyIntArg(0)}, {JNull},
                   {<<"http://h">>}, {None}, CuratedReplies)

(***************************************************************************)
(* The state machine: one invocation, from "start" to "done"               *)
(***************************************************************************)
Start(inputs) ==
    /\ \E inp \in inputs :
          /\ surface = inp.surface
          /\ argv = inp.argv
          /\ env = inp.env
          /\ reply = inp.reply
    /\ pc = "start"
    /\ requests = << >>
    /\ outcome = Pending
    /\ stdout = << >>
    /\ stderr = << >>
    /\ exit_code = Running

\* Command lines argparse refuses or accepts: required flags missing, amounts that are no
\* non-negative integers.
UsageInputs ==
    CliInputs(PathCommands, {None, <<"a">>}, {None, <<"alpha">>},
              {None, <<"5">>, <<"-", "1">>, <<"x">>, <<"1", ".", "5">>}, {None, <<"-", "1">>}, {None}, {None},
              {FALSE}, {NoEnv}, {Response(200, BBudget)})

EnvBaseUrls == {None, << >>, <<"http://e">>, <<"http://e", "/">>}

\* Every command and method under every source of the base URL.
BaseInputs ==
    CliInputs(DOMAIN SubCommands, {<<"a">>}, {<<"alpha">>}, {<<"5">>}, {None}, BaseUrls \cup {<<"/">>}, {None},
              {FALSE}, [CAP_MODE : {None}, CAP_API_KEY : {None}, CAP_BASE_URL : EnvBaseUrls],
              {Response(200, BAgent)})
    \cup LibInputs(ClientMethods, {<<"a">>}, {<<"r">>}, {None}, {PyIntArg(5)}, {PyIntArg(0)}, {JObj(<< >>)},
                   (BaseUrls \ {None}) \cup {<<"/">>, <<"http://h", "/", "p", "/">>}, {None},
                   {Response(200, BAgent)})

Init == Start(SmokeInputs \cup AuthInputs \cup CallInputs \cup UsageInputs \cup BaseInputs)

\* The process ran main() to its end.
Exit(m) ==
    /\ pc' = "done"
    /\ requests' = m.requests
    /\ outcome' = m.result
    /\ stdout' = m.stdout
    /\ stderr' = m.stderr
    /\ exit_code' = m.exit_code
    /\ UNCHANGED <<surface, argv, env, reply>>

\* The command line selects the handler named h; main() runs it, and r is what it did.
Command(h, r) ==
    /\ pc = "start"
    /\ surface = "cli"
    /\ parse_args(argv).kind = "handler"
    /\ parse_args(argv).handler = h
    /\ Exit(MainResult(HandlerReturn(r)))

AgentCreate == Command("_cmd_agent_create", _cmd_agent_create(parse_args(argv).args, env, reply))

AgentList == Command("_cmd_agent_list", _cmd_agent_list(parse_args(argv).args, env, reply))

AgentGet == Command("_cmd_agent_get", _cmd_agent_get(parse_args(argv).args, env, reply))

AgentRename == Command("_cmd_agent_rename", _cmd_agent_rename(parse_args(argv).args, env, reply))

AgentDelete == Command("_cmd_agent_delete", _cmd_agent_delete(parse_args(argv).args, env, reply))

BudgetSet == Command("_cmd_budget_set", _cmd_budget_set(parse_args(argv).args, env, reply))

BudgetGet == Command("_cmd_budget_get", _cmd_budget_get(parse_args(argv).args, env, reply))

\* argparse rejects the command line: usage message, exit code 2.
UsageError ==
    /\ pc = "start"
    /\ surface = "cli"
    /\ parse_args(argv).kind = "usage"
    /\ Exit(MainResult(UsageExit))

\* No sub-command selects a handler: run prints the help and returns 2.
PrintHelp ==
    /\ pc = "start"
    /\ surface = "cli"
    /\ parse_args(argv).kind = "help"
    /\ Exit(MainResult(HelpReturn))

\* Where KeyboardInterrupt can stop an invocation that would do r: before it opens its request
\* or while urlopen blocks on it, nothing printed yet; or later, between two print calls.
InterruptedAt(r) ==
    \/ requests' \in Prefixes(r.requests) /\ stdout' = << >>
    \/ requests' = r.requests /\ stdout' \in Prefixes(r.stdout)

\* KeyboardInterrupt reaches main (line 314) from anywhere in run().
Interrupt ==
    /\ pc = "start"
    /\ surface = "cli"
    /\ InterruptedAt(run(argv, env, reply))
    /\ pc' = "done"
    /\ outcome' = Raised("KeyboardInterrupt", << >>)
    /\ exit_code' = 130
    /\ UNCHANGED <<surface, argv, env, reply, stderr>>

\* A method call on SpendGuardClient(base_url, api_key) ran to its end.
MethodCall(name, res) ==
    /\ pc = "start"
    /\ surface = "lib"
    /\ argv.method = name
    /\ pc' = "done"
    /\ requests' = res.requests
    /\ outcome' = res.result
    /\ UNCHANGED <<surface, argv, env, reply, stdout, stderr, exit_code>>

Self == SpendGuardClient(argv.base_url, argv.api_key)

CreateAgent == MethodCall("create_agent", create_agent(Self, argv, reply))

ListAgents == MethodCall("list_agents", list_agents(Self, argv, reply))

SetBudget == MethodCall("set_budget", set_budget(Self, argv, reply))

GetBudget == MethodCall("get_budget", get_budget(Self, argv, reply))

CreateRun == MethodCall("create_run", create_run(Self, argv, reply))

OpenaiChatCompletions == MethodCall("openai_chat_completions", openai_chat_completions(Self, argv, reply))

OpenaiResponses == MethodCall("openai_responses", openai_responses(Self, argv, reply))

GrokChatCompletions == MethodCall("grok_chat_completions", grok_chat_completions(Self, argv, reply))

GrokResponses == MethodCall("grok_responses", grok_responses(Self, argv, reply))

\* A call of a method the class does not define.
UndefinedMethod ==
    /\ pc = "start"
    /\ surface = "lib"
    /\ argv.method \notin ClientMethods
    /\ pc' = "done"
    /\ outcome' = Raised("AttributeError", <<"'SpendGuardClient' object has no attribute">>)
    /\ UNCHANGED <<surface, argv, env, reply, requests, stdout, stderr, exit_code>>

Next ==
    \/ AgentCreate
    \/ AgentList
    \/ AgentGet
    \/ AgentRename
    \/ AgentDelete
    \/ BudgetSet
    \/ BudgetGet
    \/ UsageError
    \/ PrintHelp
    \/ Interrupt
    \/ CreateAgent
    \/ ListAgents
    \/ SetBudget
    \/ GetBudget
    \/ CreateRun
    \/ OpenaiChatCompletions
    \/ OpenaiResponses
    \/ GrokChatCompletions
    \/ GrokResponses
    \/ UndefinedMethod

Spec == Init /\ [][Next]_vars

\* The same machine over every identifier up to MaxIdLen.
InitUrl == Start(SmokeInputs \cup UrlInputs)

SpecUrl == InitUrl /\ [][Next]_vars

\* The same machine over every amount text up to MaxIntLen.
InitArgs == Start(SmokeInputs \cup ArgsInputs)

SpecArgs == InitArgs /\ [][Next]_vars

\* The same machine over every reply body up to MaxBodyLen.
InitReply == Start(SmokeInputs \cup ReplyInputs \cup ListInputs \cup DeleteInputs \cup RenderInputs)

SpecReply == InitReply /\ [][Next]_vars

(***************************************************************************)
(* Properties                                                              *)
(***************************************************************************)
Cli == surface = "cli"

Lib == surface = "lib"

Done == pc = "done"

\* The command line selected a handler (it passed argparse).
HandlerSelected == Cli /\ parse_args(argv).kind = "handler"

Interrupted == outcome.exc = "KeyboardInterrupt"

\* The handler ran to its end.
HandlerDone == Done /\ HandlerSelected /\ ~Interrupted

\* The CAP_MODE values of the model that resolve to hosted, and those that resolve to sidecar.
HostedModes == {Hosted, ShoutedHosted}

SidecarModes == {None, << >>, Sidecar}

NoKeyAvailable == argv.api_key \in {None, << >>} /\ env.CAP_API_KEY \in {None, << >>}

CarriesKey(req) == "x-api-key" \in DOMAIN req.headers

\* C1: in hosted mode with no key from --api-key or CAP_API_KEY, no command opens a request, and the
\* handler ends with the one-line error containing "requires API key" and exit code 1.
C1_HostedWithoutKey ==
    (Cli /\ env.CAP_MODE \in HostedModes /\ NoKeyAvailable) =>
        /\ requests = << >>
        /\ HandlerDone =>
              /\ exit_code = 1
              /\ Len(stderr) = 1
              /\ "requires API key" \in Range(stderr[1])
              /\ stdout = << >>

C1_Witness ==
    /\ HandlerDone
    /\ env.CAP_MODE = ShoutedHosted
    /\ NoKeyAvailable
    /\ argv.command = <<"budget", "set">>
    /\ exit_code = 1

\* C2 (as claimed): in sidecar mode no request of any command carries an x-api-key header,
\* whatever --api-key and CAP_API_KEY are.
C2_SidecarNeverSendsKey ==
    (Cli /\ env.CAP_MODE \in SidecarModes) => \A i \in 1..Len(requests) : ~CarriesKey(requests[i])

\* C3 (as claimed): in hosted mode with a key available every request carries x-api-key, with the
\* --api-key value when the flag is given and the CAP_API_KEY value only when it is not.
C3_FlagWheneverGiven ==
    (Cli /\ env.CAP_MODE \in HostedModes /\ ~NoKeyAvailable) =>
        \A i \in 1..Len(requests) :
            /\ CarriesKey(requests[i])
            /\ requests[i].headers["x-api-key"] = IF argv.api_key # None THEN argv.api_key ELSE env.CAP_API_KEY

\* C3 (amended): in hosted mode with a key available every request carries x-api-key, with the
\* --api-key value when the flag is given and not empty, and the CAP_API_KEY value otherwise; and the
\* handler does open its request.
C3_NonEmptyFlagFirst ==
    (Cli /\ env.CAP_MODE \in HostedModes /\ ~NoKeyAvailable) =>
        /\ \A i \in 1..Len(requests) :
              /\ CarriesKey(requests[i])
              /\ requests[i].headers["x-api-key"] =
                    IF argv.api_key \notin {None, << >>} THEN argv.api_key ELSE env.CAP_API_KEY
        /\ HandlerDone => Len(requests) = 1

C3_Witness ==
    /\ HandlerDone
    /\ env.CAP_MODE = Hosted
    /\ argv.api_key = <<"kf">>
    /\ env.CAP_API_KEY = <<"ke">>
    /\ Len(requests) = 1
    /\ requests[1].headers["x-api-key"] = <<"kf">>

\* How an operation ends without having reached urlopen: argparse's exit, the help, the missing
\* key, int() refusing an amount, a method the class does not define.
EndedBeforeDispatch ==
    \/ outcome.exc \in {"SystemExit", "ValueError", "TypeError", "AttributeError"}
    \/ Cli /\ parse_args(argv).kind = "help"
    \/ outcome.exc = "CliError" /\ "requires API key" \in Range(outcome.message)

\* C4: an operation opens at most one request, whatever the reply; once it has ended (and was not
\* interrupted) it has opened exactly one unless it ended before dispatch.
C4_OneRequest ==
    /\ Len(requests) <= 1
    /\ (Done /\ ~Interrupted) => (Len(requests) = 1 <=> ~EndedBeforeDispatch)
    /\ ~Done => requests = << >>

C4_Witness ==
    /\ Done
    /\ Lib
    /\ reply.kind = "http_error"
    /\ outcome.exc = "HTTPError"
    /\ Len(requests) = 1

\* An amount no budget may take: a text that is not an integer or is a negative one (command
\* line), a negative int, a float with a fraction, a str that is not an integer, or None (library).
BadAmountText(t) == t # None /\ (~PyInt(t).ok \/ PyInt(t).n < 0)

BadAmountArg(x) ==
    \/ x.t = "int" /\ x.n < 0
    \/ x.t = "float"
    \/ x.t = "str" /\ ~PyInt(x.s).ok
    \/ x.t = "NoneType"

\* C5 (as claimed): on the command line and in the library alike, a hard_limit_cents or
\* topup_cents that is negative or not an integer is rejected before any request is opened.
C5_BadAmountRejected ==
    (\/ Cli /\ argv.command = <<"budget", "set">> /\ (BadAmountText(argv.limit) \/ BadAmountText(argv.topup))
     \/ Lib /\ argv.method = "set_budget"
            /\ (BadAmountArg(argv.hard_limit_cents) \/ BadAmountArg(argv.topup_cents)))
    => /\ requests = << >>
       /\ (Done /\ ~Interrupted) => outcome.kind = "raised"

\* A decimal numeral as json.dumps writes it.
IsCanonical(t) == t # << >> /\ Range(t) \subseteq DigitSet /\ (Len(t) = 1 \/ t[1] # "0")

\* The numeral of the amount a --limit or --topup text stands for.
Numeral(t) == IF IsCanonical(t) THEN t ELSE IntText(PyInt(t).n)

ExpectedBase == IF argv.base_url = None THEN <<"http://localhost:8787">> ELSE <<"http://h">>

\* C6: budget set sends one POST to base/v1/agents/{id}/budget whose body is the JSON object of
\* exactly hard_limit_cents = limit and topup_cents = topup, topup being 0 when --topup is omitted.
C6_BudgetSetBody ==
    (Cli /\ argv.command = <<"budget", "set">> /\ requests # << >>) =>
        LET req == requests[1]
            parsed == JsonLoads(req.data)
        IN  /\ Len(requests) = 1
            /\ req.method = "POST"
            /\ req.url = ExpectedBase \o <<"/v1/agents/">> \o Quote(argv.agent, {}) \o <<"/budget">>
            /\ ~BadAmountText(argv.limit) /\ ~BadAmountText(argv.topup)
            /\ parsed.ok
            /\ parsed.v =
                  JObj(<<Item("hard_limit_cents", JNum(Numeral(argv.limit))),
                         Item("topup_cents", JNum(IF argv.topup = None THEN <<"0">> ELSE Numeral(argv.topup)))>>)

C6_Witness ==
    /\ HandlerDone
    /\ argv.command = <<"budget", "set">>
    /\ argv.limit = <<"1", "7">>
    /\ argv.topup = None
    /\ Len(requests) = 1
    /\ requests[1].data =
          <<"{", "\"hard_limit_cents\"", ":", " ", "1", "7", ",", " ", "\"topup_cents\"", ":", " ", "0", "}">>

\* The path suffix each path-taking command appends after the identifier.
PathSuffix == IF argv.command[1] = "budget" THEN <<"/budget">> ELSE << >>

\* The identifier segment of the one request's URL.
Segment ==
    SubSeq(requests[1].url, Len(ExpectedBase) + 2, Len(requests[1].url) - Len(PathSuffix))

HexDigits == {"0", "1", "2", "3", "4", "5", "6", "7", "8", "9", "A", "B", "C", "D", "E", "F"}

\* Every "%" of s starts an escape %XX.
WellEscaped(s) ==
    \A i \in 1..Len(s) : s[i] = "%" => (i + 2 <= Len(s) /\ s[i + 1] \in HexDigits /\ s[i + 2] \in HexDigits)

\* C7: agent get, rename, delete, budget get and budget set put the identifier into the URL path
\* percent-encoded once with no character left safe: the segment holds no "/", no space and no bare
\* "%", decodes back to the identifier, and "%20" arrives as "%2520".
C7_PathEncodedOnce ==
    (Cli /\ argv.command \in PathCommands /\ requests # << >>) =>
        LET url == requests[1].url
        IN  /\ SubSeq(url, 1, Len(ExpectedBase) + 1) = ExpectedBase \o <<"/v1/agents/">>
            /\ SubSeq(url, Len(url) - Len(PathSuffix) + 1, Len(url)) = PathSuffix
            /\ Range(Segment) \cap {"/", " "} = {}
            /\ WellEscaped(Segment)
            /\ Unquote(Segment) = argv.agent
            /\ argv.agent = <<"%", "2", "0">> => Segment = <<"%", "2", "5", "2", "0">>

C7_Witness ==
    /\ HandlerDone
    /\ argv.command = <<"agent", "delete">>
    /\ argv.agent = <<"%", "2", "0">>
    /\ Len(requests) = 1
    /\ requests[1].url = <<"http://localhost:8787", "/v1/agents/", "%", "2", "5", "2", "0">>

\* C8 (as claimed): the library's path operations exist, and each puts its identifiers into the
\* URL path percent-encoded, so that no "/" or space of an identifier reaches the path.
C8_LibraryPathEncoded ==
    (Lib /\ Done /\ argv.method \in PathMethods \cup MissingMethods) =>
        /\ outcome.exc # "AttributeError"
        /\ Len(requests) = 1
        /\ Range(requests[1].url) \cap {"/", " "} = {}

StatusText == (400 :> <<"4", "0", "0">>) @@ (404 :> <<"4", "0", "4">>) @@ (503 :> <<"5", "0", "3">>)

\* detail(b) of an error body b, read as text with undecodable bytes replaced.
ExpectedDetail(b) ==
    LET parsed == JsonLoads(b)
        details == IF parsed.ok /\ parsed.v.t = "dict"
                   THEN {i \in 1..Len(parsed.v.kids) : parsed.v.kids[i].k = "detail"}
                   ELSE {}
    IN  IF b = << >> THEN <<"request failed">>
        ELSE IF \E i \in details : parsed.v.kids[i].v.t = "str"
             THEN parsed.v.kids[CHOOSE i \in details : TRUE].v.s
             ELSE b

\* C9: a non-2xx reply with status s and body b ends every command with the one message
\* "HTTP s: " followed by detail(b), on stderr, exit code 1, nothing rendered.
C9_HttpErrorMessage ==
    (HandlerDone /\ reply.kind = "http_error" /\ requests # << >>) =>
        /\ outcome.exc = "CliError"
        /\ stderr = << <<"HTTP ">> \o StatusText[reply.status] \o <<": ">> \o ExpectedDetail(DecodeReplace(reply.body)) >>
        /\ stdout = << >>
        /\ exit_code = 1

C9_Witness ==
    /\ HandlerDone
    /\ reply = HttpError(400, BTwoDetails)
    /\ stderr = << <<"HTTP ", "4", "0", "0", ": ", "a1">> >>

ValidJson(b) == BadByte \notin Range(b) /\ JsonLoads(b).ok

\* C10 (as claimed): a 2xx body ends in exactly one of four ways: empty gives the empty mapping,
\* a body that is not valid JSON the parse error, valid JSON that is not a mapping the shape error,
\* and a JSON mapping that mapping (which agent list then checks for its agents list).
C10_FourOutcomes ==
    (HandlerDone /\ reply.kind = "response" /\ requests # << >>) =>
        LET b == reply.body
            isMapping == ValidJson(b) /\ JsonLoads(b).v.t = "dict"
            listCheck == argv.command = <<"agent", "list">> /\ outcome.exc = "CliError"
                         /\ outcome.message = <<"Server response missing agents list">>
        IN  CASE b = << >> -> outcome = Returned(JObj(<< >>)) \/ listCheck
              [] b # << >> /\ ~ValidJson(b) ->
                    outcome.exc = "CliError" /\ "not valid JSON" \in Range(outcome.message)
              [] ValidJson(b) /\ ~isMapping ->
                    outcome.exc = "CliError" /\ "must be a JSON object" \in Range(outcome.message)
              [] OTHER -> outcome = Returned(JsonLoads(b).v) \/ listCheck

\* C11 (as claimed): a connection failure, a DNS failure or a timeout of the one request, the
\* timeout that expires while the response body is read included, ends the command with the one
\* line "Request failed: <reason>" on stderr and exit code 1, with one request opened and no
\* exception other than the client error.
C11_TransportErrorSurfaced ==
    (HandlerDone /\ reply.kind \in {"url_error", "read_timeout"} /\ requests # << >>) =>
        /\ Len(requests) = 1
        /\ outcome.exc = "CliError"
        /\ stderr = << <<"Request failed: ">> \o reply.reason >>
        /\ stdout = << >>
        /\ exit_code = 1

\* The flags the command line gives, among those its sub-command requires.
RequiredGiven ==
    /\ argv.command \in PathCommands => argv.agent # None
    /\ argv.command = <<"agent", "rename">> => argv.name # None
    /\ argv.command = <<"budget", "set">> => argv.limit # None

BadAmountGiven ==
    argv.command = <<"budget", "set">> /\ (BadAmountText(argv.limit) \/ BadAmountText(argv.topup))

\* C12: a finished invocation has one of the exit codes 0, 1, 2, 130: 0 exactly when a handler
\* returned (which takes a 2xx reply to its one request), 1 for every client error, 2 when a
\* required flag is missing, an amount is no non-negative integer or no (sub-)sub-command is
\* given (the help is then printed), 130 when interrupted; before it ends there is no exit code.
C12_ExitCodes ==
    /\ Cli /\ ~Done => exit_code = Running
    /\ (Cli /\ Done) =>
          /\ exit_code \in {0, 1, 2, 130}
          /\ exit_code = 0 <=> (HandlerSelected /\ outcome.kind = "returned")
          /\ exit_code = 0 => (reply.kind = "response" /\ Len(requests) = 1 /\ stderr = << >>)
          /\ outcome.exc = "CliError" => (exit_code = 1 /\ Len(stderr) = 1)
          /\ exit_code = 130 <=> Interrupted
          /\ ~Interrupted =>
                /\ (argv.command \in DOMAIN SubCommands /\ (~RequiredGiven \/ BadAmountGiven)) =>
                      (exit_code = 2 /\ requests = << >> /\ stdout = << >>)
                /\ argv.command \in HelpCommands => (exit_code = 2 /\ stdout = <<HelpText>>)
                /\ exit_code = 2 => ~HandlerSelected

C12_Witness ==
    /\ Cli
    /\ Done
    /\ argv.command = <<"budget", "set">>
    /\ argv.agent = <<"a">>
    /\ argv.limit = <<"-", "1">>
    /\ exit_code = 2

\* The "agents" array of a 2xx reply to agent list without --json.
ListedHuman ==
    /\ HandlerDone
    /\ argv.command = <<"agent", "list">>
    /\ ~argv.json
    /\ reply.kind = "response"
    /\ ValidJson(reply.body)
    /\ HasKey(JsonLoads(reply.body).v, "agents")
    /\ Get(JsonLoads(reply.body).v, "agents").t = "list"

Agents == Get(JsonLoads(reply.body).v, "agents").kids

\* C13 (as claimed): agent list prints the one line "(no agents)" for an empty array and
\* otherwise one line per element, as many lines as elements and never none, and exits 0.
C13_LinePerElement ==
    ListedHuman =>
        /\ exit_code = 0
        /\ Agents = << >> => stdout = << <<"(no agents)">> >>
        /\ Agents # << >> => (Len(stdout) = Len(Agents) /\ stdout # << >>)

\* The positions of the elements of the array that are JSON objects, and the k-th of them.
ObjectRows == {i \in 1..Len(Agents) : Agents[i].v.t = "dict"}

NthObjectRow(k) == CHOOSE i \in ObjectRows : Cardinality({j \in ObjectRows : j < i}) = k - 1

\* C13 (amended): agent list prints the one line "(no agents)" for an empty array and otherwise
\* one agent line per element that is a JSON object, in input order, skipping every other
\* element (so nothing at all when no element is an object), and exits 0.
C13_LinePerObjectRow ==
    ListedHuman =>
        /\ exit_code = 0
        /\ Agents = << >> => stdout = << <<"(no agents)">> >>
        /\ Agents # << >> =>
              /\ Len(stdout) = Cardinality(ObjectRows)
              /\ \A k \in 1..Len(stdout) : <<stdout[k]>> = _print_agent(Agents[NthObjectRow(k)].v, None)

C13_Witness ==
    /\ ListedHuman
    /\ reply.body = BAgents
    /\ stdout = << <<"agent_id", "=", "a1">>, <<"agent_id", "=", " ", "name", "=", "x">> >>

\* A 2xx reply with a JSON object (or nothing) to a command without --json; Result is the mapping.
Succeeded == HandlerDone /\ reply.kind = "response" /\ (reply.body = << >> \/ ValidJson(reply.body)) /\ exit_code = 0

Result == IF reply.body = << >> THEN JObj(<< >>) ELSE JsonLoads(reply.body).v

\* The fields of the result named key (one at most: a later duplicate replaces the earlier).
Fields(key) == {i \in 1..Len(Result.kids) : Result.kids[i].k = key}

Field(key) == Result.kids[CHOOSE i \in Fields(key) : TRUE].v

ConfirmedDeleted == Fields("deleted") # {} /\ Field("deleted").t = "bool" /\ Field("deleted").s = <<"true">>

\* C14: without --json agent delete prints "deleted agent_id=<id>" (the id of the result, else the
\* one given) exactly when the result's "deleted" is the boolean true; for every other result it
\* prints the result as one line of compact key-sorted JSON, and no confirmation.
C14_DeleteConfirmation ==
    (Succeeded /\ argv.command = <<"agent", "delete">> /\ ~argv.json) =>
        /\ Len(stdout) = 1
        /\ ConfirmedDeleted =>
              stdout[1] = <<"deleted ", "agent_id", "=">>
                          \o (IF Fields("agent_id") # {} THEN PyStr(Field("agent_id")) ELSE argv.agent)
        /\ ~ConfirmedDeleted =>
              /\ stdout[1] = JsonDumpsSorted(Result)
              /\ "deleted " \notin Range(stdout[1])
              /\ JsonLoads(stdout[1]).ok
              /\ {JsonLoads(stdout[1]).v.kids[i] : i \in 1..Len(Result.kids)} = Range(Result.kids)

C14_Witness ==
    /\ Succeeded
    /\ argv.command = <<"agent", "delete">>
    /\ ~argv.json
    /\ reply.body = <<"{", "\"x\"", ":", "1", ",", "\"deleted\"", ":", "1", ",", "\"agent_id\"", ":", "\"a1\"", "}">>
    /\ stdout = << <<"{", "\"agent_id\"", ":", " ", "\"a1\"", ",", " ", "\"deleted\"", ":", " ", "1", ",", " ",
                     "\"x\"", ":", " ", "1", "}">> >>

RECURSIVE DeepEqual(_, _)
\* Two JSON values are deep-equal: the same scalar, lists equal element by element, objects with
\* the same keys and deep-equal values whatever the order of the keys.
DeepEqual(a, b) ==
    /\ a.t = b.t
    /\ a.s = b.s
    /\ Len(a.kids) = Len(b.kids)
    /\ IF a.t = "dict"
       THEN \A i \in 1..Len(a.kids) :
               \E j \in 1..Len(b.kids) : b.kids[j].k = a.kids[i].k /\ DeepEqual(a.kids[i].v, b.kids[j].v)
       ELSE \A i \in 1..Len(a.kids) : DeepEqual(a.kids[i].v, b.kids[i].v)

\* C15: with --json every command given a 2xx reply holding a JSON object (or nothing: the empty
\* object) exits 0 having printed one text that parses back to a value deep-equal to the result,
\* whatever the result holds.
C15_JsonRoundTrip ==
    (HandlerDone /\ argv.json /\ requests # << >> /\ reply.kind = "response"
     /\ (reply.body = << >> \/ (ValidJson(reply.body) /\ JsonLoads(reply.body).v.t = "dict"))) =>
        /\ exit_code = 0
        /\ stderr = << >>
        /\ Len(stdout) = 1
        /\ JsonLoads(stdout[1]).ok
        /\ DeepEqual(JsonLoads(stdout[1]).v, Result)

C15_Witness ==
    /\ HandlerDone
    /\ argv.json
    /\ argv.command = <<"agent", "list">>
    /\ reply.body = BBudget
    /\ exit_code = 0
    /\ Len(stdout) = 1
    /\ DeepEqual(JsonLoads(stdout[1]).v, JsonLoads(BBudget).v)

\* s without its trailing "/"s.
NoTrailingSlash(s) ==
    CHOOSE p \in Prefixes(s) :
        /\ p = << >> \/ p[Len(p)] # "/"
        /\ \A i \in (Len(p) + 1)..Len(s) : s[i] = "/"

\* A request URL is base followed directly by a path that begins with one "/".
UrlOnBase(url, base) ==
    /\ base = << >> \/ base[Len(base)] # "/"
    /\ Len(url) > Len(base)
    /\ SubSeq(url, 1, Len(base)) = base
    /\ url[Len(base) + 1] \in {"/v1/agents", "/v1/agents/"}

\* C16 (as claimed): the base URL is --base-url when given, else CAP_BASE_URL when set, else
\* http://localhost:8787 (the constructor's argument in the library), without trailing "/", and
\* every request URL is that base followed directly by a path beginning with one "/".
C16_GivenBaseUrlFirst ==
    \A i \in 1..Len(requests) :
        UrlOnBase(requests[i].url,
                  NoTrailingSlash(IF Lib \/ argv.base_url # None THEN argv.base_url
                                  ELSE IF env.CAP_BASE_URL # None THEN env.CAP_BASE_URL
                                  ELSE <<"http://localhost:8787">>))

\* C16 (amended): the base URL is --base-url when given and not empty, else CAP_BASE_URL when set
\* and not empty, else http://localhost:8787 (the constructor's argument in the library), without
\* trailing "/", and every request URL is that base followed directly by a path beginning with
\* one "/".
C16_NonEmptyBaseUrlFirst ==
    \A i \in 1..Len(requests) :
        UrlOnBase(requests[i].url,
                  NoTrailingSlash(IF Lib \/ argv.base_url \notin {None, << >>} THEN argv.base_url
                                  ELSE IF env.CAP_BASE_URL \notin {None, << >>} THEN env.CAP_BASE_URL
                                  ELSE <<"http://localhost:8787">>))

C16_Witness ==
    /\ HandlerDone
    /\ argv.command = <<"agent", "list">>
    /\ argv.base_url = << >>
    /\ env.CAP_BASE_URL = <<"http://e", "/">>
    /\ Len(requests) = 1
    /\ requests[1].url = <<"http://e", "/v1/agents">>

AgentFields == <<"name", "created_at">>

BudgetFields == <<"hard_limit_cents", "remaining_cents", "locked_cents", "locked_run_id", "locked_expires_at">>

\* The token key=value of a field of the result; agent_id falls back on the identifier given.
Token(key) == <<key, "=">> \o PyStr(Field(key))

AgentIdToken == <<"agent_id", "=">> \o (IF Fields("agent_id") # {} THEN PyStr(Field("agent_id")) ELSE argv.agent)

TokensOf(keys) == [i \in 1..Len(keys) |-> Token(keys[i])]

RECURSIVE SpaceJoin(_)
SpaceJoin(tokens) ==
    IF tokens = << >> THEN << >>
    ELSE tokens[1] \o (IF Len(tokens) > 1 THEN <<" ">> ELSE << >>) \o SpaceJoin(Tail(tokens))

RendersAgent == Succeeded /\ ~argv.json /\ argv.command \in {<<"agent", "get">>, <<"agent", "rename">>}

RendersBudget == Succeeded /\ ~argv.json /\ argv.command \in {<<"budget", "get">>, <<"budget", "set">>}

\* C17 (as claimed): the agent and the budget renderer print one line of key=value tokens
\* separated by spaces: agent_id (the identifier given when the result has none), then every
\* recognized field the result holds, in the fixed order, leaving out exactly the absent ones.
C17_OneLineOfPresentFields ==
    /\ RendersAgent =>
          stdout = <<SpaceJoin(<<AgentIdToken>>
                               \o TokensOf(SelectSeq(AgentFields, LAMBDA k : Fields(k) # {})))>>
    /\ RendersBudget =>
          stdout = <<SpaceJoin(<<AgentIdToken>>
                               \o TokensOf(SelectSeq(BudgetFields, LAMBDA k : Fields(k) # {})))>>

\* C17 (amended): the agent renderer prints one line: agent_id (the identifier given when the
\* result has none), then name and created_at, each only when the result holds it with a value
\* that is not empty, null, zero or false; the budget renderer prints one key=value line per
\* field: agent_id (the result's, else the identifier given unless that is empty), then every
\* budget field the result holds, null included, in the fixed order.
C17_RenderedFields ==
    /\ RendersAgent =>
          stdout = <<SpaceJoin(<<AgentIdToken>>
                               \o TokensOf(SelectSeq(AgentFields,
                                                     LAMBDA k : Fields(k) # {} /\ PyTruthy(Field(k)))))>>
    /\ RendersBudget =>
          stdout = (IF Fields("agent_id") # {} \/ argv.agent # << >> THEN <<AgentIdToken>> ELSE << >>)
                   \o TokensOf(SelectSeq(BudgetFields, LAMBDA k : Fields(k) # {}))

C17_Witness ==
    /\ RendersAgent
    /\ argv.agent = <<"a">>
    /\ reply.body = <<"{", "\"created_at\"", ":", "5", ",", "\"name\"", ":", "\"\"", "}">>
    /\ stdout = << <<"agent_id", "=", "a", " ", "created_at", "=", "5">> >>

\* The operations both surfaces offer.
SharedOperations == {<<"agent", "create">>, <<"agent", "list">>, <<"budget", "set">>, <<"budget", "get">>}

\* The library call of the same operation as the command line of this state: same base URL,
\* same resolved key, same arguments, same reply.
LibraryTwin ==
    LET self == SpendGuardClient(_base_url(argv.base_url, env), _resolve_api_key(argv, env).key)
        call == Call("", argv.agent, None, argv.name,
                     PyIntArg(IF argv.limit = None THEN 0 ELSE PyInt(argv.limit).n),
                     PyIntArg(IF argv.topup = None THEN 0 ELSE PyInt(argv.topup).n),
                     JNull, argv.base_url, argv.api_key)
    IN  CASE argv.command = <<"agent", "create">> -> create_agent(self, call, reply)
          [] argv.command = <<"agent", "list">> -> list_agents(self, call, reply)
          [] argv.command = <<"budget", "set">> -> set_budget(self, call, reply)
          [] OTHER -> get_budget(self, call, reply)

\* The kind of outcome a reply is classified into, on either surface.
OutcomeKind(o) ==
    CASE o.kind = "returned" -> "mapping"
      [] o.exc = "URLError" \/ (o.exc = "CliError" /\ o.message[1] = "Request failed: ") -> "transport"
      [] o.exc = "HTTPError" \/ (o.exc = "CliError" /\ o.message[1] = "HTTP ") -> "application"
      [] o.exc = "JSONDecodeError" \/ (o.exc = "CliError" /\ "not valid JSON" \in Range(o.message)) -> "parse"
      [] o.exc = "RuntimeError" \/ (o.exc = "CliError" /\ "must be a JSON object" \in Range(o.message)) -> "shape"
      [] OTHER -> o.exc

SameHeader(a, b, name) == (name \in DOMAIN a.headers) <=> (name \in DOMAIN b.headers)

\* C18 (as claimed): for create agent, list agents, set budget and get budget, the command line
\* and the library call with the same base URL, key and reply open the same request (method,
\* URL, JSON body, Content-Type, Accept, presence of x-api-key) and end in the same kind of outcome
\* (the same mapping, or a transport, application, parse or shape error).
C18_SameRequestAndOutcome ==
    (HandlerDone /\ argv.command \in SharedOperations /\ requests # << >>) =>
        /\ Len(LibraryTwin.requests) = 1
        /\ LibraryTwin.requests[1].method = requests[1].method
        /\ LibraryTwin.requests[1].url = requests[1].url
        /\ LibraryTwin.requests[1].data = requests[1].data
        /\ SameHeader(LibraryTwin.requests[1], requests[1], "Content-Type")
        /\ SameHeader(LibraryTwin.requests[1], requests[1], "Accept")
        /\ SameHeader(LibraryTwin.requests[1], requests[1], "x-api-key")
        /\ (outcome.exc = "CliError" /\ outcome.message = <<"Server response missing agents list">>)
           \/ /\ OutcomeKind(LibraryTwin.result) = OutcomeKind(outcome)
              /\ outcome.kind = "returned" => LibraryTwin.result.value = outcome.value

\* The invocation ended with an error: the one-line client error, or an exception that left main.
EndedWithError == Cli /\ Done /\ outcome.kind = "raised" /\ ~Interrupted

\* C19 (as claimed): a command that ends with an error has written nothing to standard output,
\* and a command whose handler has written to standard output returns 0.
C19_OutputOnlyWithExitZero ==
    /\ EndedWithError => stdout = << >>
    /\ (Cli /\ Done /\ HandlerSelected /\ stdout # << >>) => exit_code = 0

\* C19 (amended): a command that ends with an error has written nothing to standard output; a
\* handler writes to standard output only after its one request got a 2xx reply holding a JSON
\* object or nothing, and the invocation then returns 0, unless an interrupt stops it while it
\* prints: then it returns 130, having written the first lines of its output.
C19_OutputOnlyAfterSuccess ==
    /\ Cli /\ ~Done => stdout = << >>
    /\ EndedWithError => stdout = << >>
    /\ (Cli /\ Done /\ HandlerSelected /\ stdout # << >>) =>
          /\ Len(requests) = 1
          /\ reply.kind = "response"
          /\ reply.body = << >> \/ (ValidJson(reply.body) /\ JsonLoads(reply.body).v.t = "dict")
          /\ stderr = << >>
          /\ exit_code = 0 \/ (Interrupted /\ exit_code = 130)

C19_Witness ==
    /\ Cli
    /\ Done
    /\ Interrupted
    /\ argv.command = <<"budget", "get">>
    /\ reply.body = BBudget
    /\ stdout = << <<"agent_id", "=", "a">>, <<"hard_limit_cents", "=", "5", "0">> >>
    /\ exit_code = 130

=============================================================================
